---- MODULE Spec2Model ----
(***************************************************************************)
(* NvFuserOperatorSupport (torch/fx/passes/backends/nvfuser/                *)
(* operator_support.py): the support table built by __init__ from the      *)
(* legacy jit_dict, torch._decomp.decomposition_table and torch.ops.prims,  *)
(* and the per-node predicate is_node_supported.                            *)
(*                                                                         *)
(* Python strings are TLA+ strings; Len, SubSeq and \o act on them as on    *)
(* Python's len, slicing and +.  A dict whose values are all None is the    *)
(* set of its keys.  Dict objects live in a heap indexed by object id, so   *)
(* that two names bound to the same dict are visibly the same object.       *)
(***************************************************************************)
EXTENDS Integers, Sequences, FiniteSets, TLC

VARIABLES
    decomposition_table,  \* torch._decomp.decomposition_table: key -> implementation
    prims,                \* torch.ops.prims: attribute name -> kind of the attribute
    heap,                 \* dict object id -> the set of keys of that dict
    instances,            \* the NvFuserOperatorSupport objects, in construction order
    ret                   \* the last is_node_supported call: its arguments and result

vars == <<decomposition_table, prims, heap, instances, ret>>

(***************************************************************************)
(* Bounds of the model.                                                     *)
(***************************************************************************)
MaxInstances == 2
MaxDecomps == 2
MaxPrims == 2

(***************************************************************************)
(* Python string operations.                                                *)
(***************************************************************************)
\* Python `sub in s` on strings: sub is a contiguous slice of s.
StrIn(sub, s) ==
    \E i \in 1..(Len(s) - Len(sub) + 1) : SubSeq(s, i, i + Len(sub) - 1) = sub

(***************************************************************************)
(* The legacy table: the keys of the dict literal of __init__.              *)
(***************************************************************************)
jit_dict ==
    { "torch.ops.aten.add", "torch.ops.aten.sub", "torch.ops.aten.rsub",
      "torch.ops.aten.atan2", "torch.ops.aten.mul", "torch.ops.aten.max",
      "torch.ops.aten.min", "torch.ops.aten.pow", "torch.ops.aten.remainder",
      "torch.ops.aten.fmod", "torch.ops.aten.bitwise_and", "torch.ops.aten.__and__",
      "torch.ops.aten.bitwise_or", "torch.ops.aten.__or__",
      "torch.ops.aten.bitwise_xor", "torch.ops.aten.__xor__",
      "torch.ops.aten.bitwise_left_shift", "torch.ops.aten.__lshift__",
      "torch.ops.aten.bitwise_right_shift", "torch.ops.aten.__rshift__",
      "torch.ops.aten.eq", "torch.ops.aten.ne", "torch.ops.aten.ge",
      "torch.ops.aten.gt", "torch.ops.aten.le", "torch.ops.aten.lt",
      "torch.ops.aten.abs", "torch.ops.aten.bitwise_not", "torch.ops.aten.ceil",
      "torch.ops.aten.floor", "torch.ops.aten.frac", "torch.ops.aten.neg",
      "torch.ops.aten.relu", "torch.ops.aten.round", "torch.ops.aten.silu",
      "torch.ops.aten.trunc", "torch.ops.aten.log", "torch.ops.aten.log10",
      "torch.ops.aten.log1p", "torch.ops.aten.log2", "torch.ops.aten.lgamma",
      "torch.ops.aten.exp", "torch.ops.aten.expm1", "torch.ops.aten.erf",
      "torch.ops.aten.erfc", "torch.ops.aten.cos", "torch.ops.aten.acos",
      "torch.ops.aten.cosh", "torch.ops.aten.sin", "torch.ops.aten.asin",
      "torch.ops.aten.sinh", "torch.ops.aten.tan", "torch.ops.aten.atan",
      "torch.ops.aten.tanh", "torch.ops.aten.atanh", "torch.ops.aten.sqrt",
      "torch.ops.aten.rsqrt", "torch.ops.aten.reciprocal", "torch.ops.aten.sigmoid",
      "torch.ops.aten.isfinite", "torch.ops.aten.isinf", "torch.ops.aten.isnan",
      "torch.ops.aten.isneginf", "torch.ops.aten.isposinf", "torch.ops.aten.isreal",
      "torch.ops.aten.rand_like", "torch.ops.aten.softplus",
      "torch.ops.aten.threshold", "torch.ops.aten.clamp", "torch.ops.aten.where",
      "torch.ops.aten.lerp", "torch.ops.aten.addcmul", "torch.ops.aten.native_dropout",
      "torch.ops.aten.dropout", "torch.ops.aten.native_dropout_backward",
      "torch.ops.aten.instance_norm", "torch.ops.aten._batch_norm_impl_index",
      "torch.ops.aten.native_batch_norm", "torch.ops.aten.batch_norm",
      "torch.ops.aten.cudnn_batch_norm",
      "torch.ops.aten._batch_norm_impl_index_backward",
      "torch.ops.aten.native_batch_norm_backward", "torch.ops.aten.native_layer_norm",
      "torch.ops.aten.layer_norm", "torch.ops.aten.softmax.int",
      "torch.ops.aten.log_softmax.int", "torch.ops.aten._log_softmax_backward_data",
      "torch.ops.aten._softmax_backward_data", "torch.ops.aten.var.dim",
      "torch.ops.aten.std.dim", "torch.ops.aten.sum.dim_IntList",
      "torch.ops.aten.mean.dim", "torch.ops.aten._grad_sum_to_size",
      "torch.ops.aten.sum_to_size", "torch.ops.aten._autocast_to_reduced_precision",
      "torch.ops.aten._autocast_to_full_precision", "torch.ops.aten.to.dtype",
      "torch.ops.aten.type_as", "torch.ops.aten.linear", "torch.ops.aten.gelu",
      "torch.ops.aten.gelu_backward", "torch.ops.aten.amin", "torch.ops.aten.reshape",
      "torch.ops.aten.flatten.using_ints", "getattr", "_operator.getitem" }

\* tools_common.CALLABLE_NODE_OPS
CALLABLE_NODE_OPS == {"call_module", "call_function", "call_method"}

\* The denylist of __init__, in list order.
unsupported_prims == <<"cat", "maximum", "transpose">>

(***************************************************************************)
(* The external registries.                                                 *)
(*                                                                         *)
(* A key of decomposition_table is an operator object: a torch._ops         *)
(* OpOverload (one overload of a packet), an OpOverloadPacket, or another   *)
(* operator.  An implementation is a callable, a record of its attributes:  *)
(* it has a __module__ attribute exactly when the record has that field.    *)
(* An attribute of torch.ops.prims is an OpOverloadPacket or something      *)
(* else (a module attribute such as __doc__).                               *)
(***************************************************************************)
OpOverload(ns, name, overload) ==
    [type |-> "OpOverload", ns |-> ns, name |-> name, overload |-> overload]

OpOverloadPacket(ns, name) ==
    [type |-> "OpOverloadPacket", ns |-> ns, name |-> name, overload |-> ""]

DecompKeys ==
    { OpOverload("aten", "div", "Tensor"), OpOverload("aten", "div", "Scalar"),
      OpOverloadPacket("aten", "amax") }

DecompImpls ==
    { [__name__ |-> "div", __module__ |-> "torch._refs"],
      [__name__ |-> "amax", __module__ |-> "torch._decomp.decompositions"],
      [__name__ |-> "partial"] }

PrimAttrs ==
    [ cat |-> "OpOverloadPacket", maximum |-> "OpOverloadPacket",
      transpose |-> "OpOverloadPacket", add |-> "OpOverloadPacket",
      concatenate |-> "OpOverloadPacket", max |-> "OpOverloadPacket",
      __doc__ |-> "str" ]

\* The subsets of S of at most n elements.
SubsetsUpTo(S, n) == { X \in SUBSET S : Cardinality(X) <= n }

\* The enumerations of the finite set S: the sequences listing it once each.
RECURSIVE Orders(_)
Orders(S) ==
    IF S = {} THEN { <<>> }
    ELSE UNION { { <<x>> \o o : o \in Orders(S \ {x}) } : x \in S }

(***************************************************************************)
(* Python and torch._ops: what __init__ uses of its inputs.                 *)
(***************************************************************************)
\* hasattr(v, a)
hasattr(v, a) == a \in DOMAIN v

\* isinstance(k, torch._ops.OpOverload)
IsOpOverload(k) == k.type = "OpOverload"

\* OpOverload.overloadpacket
overloadpacket(k) == OpOverloadPacket(k.ns, k.name)

\* str(op): "ns.name.overload" of an overload, "ns.name" of a packet.
str(k) ==
    IF k.type = "OpOverload" THEN k.ns \o "." \o k.name \o "." \o k.overload
    ELSE k.ns \o "." \o k.name

(***************************************************************************)
(* NvFuserOperatorSupport.__init__                                          *)
(***************************************************************************)
\* hasattr(v, "__module__") and "torch._refs" in v.__module__
\* (`and` does not read v.__module__ when hasattr is false)
\* Variant: a callable without __module__ counts as a torch._refs one.
IsRefDecompOrNoModule(v) ==
    IF hasattr(v, "__module__") THEN StrIn("torch._refs", v.__module__) ELSE TRUE

IsRefDecomp(v) ==
    IF hasattr(v, "__module__") THEN StrIn("torch._refs", v.__module__) ELSE FALSE

\* Variant: the key is formatted without taking the overload packet.
DecompKeyOfOverload(k) == "torch.ops." \o str(k)

\* The key one decomposition_table entry is stored under.
DecompKey(k) ==
    LET op_packet == IF IsOpOverload(k) THEN overloadpacket(k) ELSE k
    IN  "torch.ops." \o str(op_packet)

\* for k, v in decomposition_table.items(): ...
\* items is the enumeration order of the keys, table the registry.
RECURSIVE DecompLoop(_, _, _)
DecompLoop(items, table, ref_dict) ==
    IF items = <<>> THEN ref_dict
    ELSE LET k == Head(items)
             v == table[k]
         IN  DecompLoop(Tail(items), table,
                        IF IsRefDecomp(v) THEN ref_dict \cup {DecompKey(k)}
                        ELSE ref_dict)

\* for prim in unsupported_prims: if f"{op}" in prim: unsupported = True
RECURSIVE UnsupportedLoop(_, _, _)
UnsupportedLoop(op, denylist, unsupported) ==
    IF denylist = <<>> THEN unsupported
    ELSE UnsupportedLoop(op, Tail(denylist),
                         IF StrIn(op, Head(denylist)) THEN TRUE ELSE unsupported)

\* Variant: the loop ends at the first unsupported primitive (break for
\* continue).
RECURSIVE PrimLoopBreak(_, _, _)
PrimLoopBreak(names, ns, ref_dict) ==
    IF names = <<>> THEN ref_dict
    ELSE LET op == Head(names)
         IN  IF ns[op] = "OpOverloadPacket"
             THEN IF UnsupportedLoop(op, unsupported_prims, FALSE)
                  THEN ref_dict
                  ELSE PrimLoopBreak(Tail(names), ns,
                                     ref_dict \cup {"torch.ops.prims." \o op})
             ELSE PrimLoopBreak(Tail(names), ns, ref_dict)

\* for op in dir(torch.ops.prims): ...
\* names is dir(torch.ops.prims), ns the namespace: getattr(ns, op) = ns[op].
RECURSIVE PrimLoop(_, _, _)
PrimLoop(names, ns, ref_dict) ==
    IF names = <<>> THEN ref_dict
    ELSE LET op == Head(names)
         IN  IF ns[op] = "OpOverloadPacket"
             THEN IF UnsupportedLoop(op, unsupported_prims, FALSE)
                  THEN PrimLoop(Tail(names), ns, ref_dict)
                  ELSE PrimLoop(Tail(names), ns,
                                ref_dict \cup {"torch.ops.prims." \o op})
             ELSE PrimLoop(Tail(names), ns, ref_dict)

\* A dict object id not in use.
NewObject(h) == CHOOSE i \in 1..(Cardinality(DOMAIN h) + 1) : i \notin DOMAIN h

\* Variant: jit_dict is one dict object shared by every call.
SharedJitDictObject(h) == 0

\* jit_dict = {...}: the dict display makes a new dict object on every call.
JitDictObject(h) == NewObject(h)

\* Variant: ref_dict starts empty.
EmptyDict(d) == {}

\* dict(d): the keys of a new dict copied from d.
dict(d) == d

\* The heap h with object id bound to the dict of keys d.
Store(h, id, d) == [i \in DOMAIN h \cup {id} |-> IF i = id THEN d ELSE h[i]]

\* Variant: the use_only_jit_ops test is dropped and the table always extended.
InitBodyAlwaysExtended(h, use_only_jit_ops, items, table, names, ns) ==
    LET jit == JitDictObject(h)
        h1  == Store(h, jit, jit_dict)
        ref == NewObject(h1)
        h2  == Store(h1, ref, dict(h1[jit]))
        h3  == Store(h2, ref, DecompLoop(items, table, h2[ref]))
        h4  == Store(h3, ref, PrimLoop(names, ns, h3[ref]))
    IN  [heap |-> h4, ref_dict |-> ref]

\* The heap after the body of __init__ up to super().__init__(ref_dict), and
\* the object ref_dict names there.
InitBody(h, use_only_jit_ops, items, table, names, ns) ==
    LET jit == JitDictObject(h)
        h1  == Store(h, jit, jit_dict)
    IN  IF use_only_jit_ops
        THEN [heap |-> h1, ref_dict |-> jit]
        ELSE LET ref == NewObject(h1)
                 h2  == Store(h1, ref, dict(h1[jit]))
                 h3  == Store(h2, ref, DecompLoop(items, table, h2[ref]))
                 h4  == Store(h3, ref, PrimLoop(names, ns, h3[ref]))
             IN  [heap |-> h4, ref_dict |-> ref]

(***************************************************************************)
(* OperatorSupport, the base class (torch/fx/passes/operator_support.py).   *)
(***************************************************************************)
\* OperatorSupport.__init__(support_dict): the object keeps the dict given.
OperatorSupport_init(support_dict) == [_support_dict |-> support_dict]

\* OperatorSupport.is_node_supported on a callable node whose dict values are
\* all None: the node's qualified name is a key of self._support_dict.
OperatorSupport_is_node_supported(h, self, node) ==
    node.target \in h[self._support_dict]

(***************************************************************************)
(* NvFuserOperatorSupport.is_node_supported                                 *)
(***************************************************************************)
\* Variant: the override is dropped and the base class decides every node.
is_node_supported_base_only(h, self, node) ==
    OperatorSupport_is_node_supported(h, self, node)

\* Variant: only call_function passes the test on node.op.
is_node_supported_function_only(h, self, node) ==
    IF node.op # "call_function" THEN FALSE
    ELSE OperatorSupport_is_node_supported(h, self, node)

is_node_supported(h, self, node) ==
    IF node.op \notin CALLABLE_NODE_OPS THEN FALSE
    ELSE OperatorSupport_is_node_supported(h, self, node)

(***************************************************************************)
(* Graph nodes: torch.fx.Node, its op and the qualified name of its target. *)
(***************************************************************************)
NodeOps ==
    CALLABLE_NODE_OPS \cup {"placeholder", "output", "get_attr", "root"}

NodeTargets == {"torch.ops.aten.add", "torch.ops.aten.div", "torch.ops.prims.add"}

Nodes == [op : NodeOps, target : NodeTargets]

NoCall == [self |-> 0, node |-> [op |-> "", target |-> ""], result |-> FALSE]

(***************************************************************************)
(* The state machine.                                                       *)
(***************************************************************************)
\* The registries hold at most MaxDecomps entries with keys in keys and
\* implementations in impls, and at most MaxPrims of the attributes attrs.
InitWith(keys, impls, attrs) ==
    /\ decomposition_table \in
           UNION { [D -> impls] : D \in SubsetsUpTo(keys, MaxDecomps) }
    /\ prims \in
           { [op \in X |-> PrimAttrs[op]] : X \in SubsetsUpTo(attrs, MaxPrims) }
    /\ heap = << >>
    /\ instances = << >>
    /\ ret = NoCall

\* self = NvFuserOperatorSupport(use_only_jit_ops), with the registries
\* enumerated in the orders items and names.  The locals of __init__ die at
\* its return: the heap keeps the dicts the instances refer to.
Construct(use_only_jit_ops, items, names) ==
    /\ Len(instances) < MaxInstances
    /\ LET body  == InitBody(heap, use_only_jit_ops, items, decomposition_table,
                             names, prims)
           self  == OperatorSupport_init(body.ref_dict)
           insts == Append(instances,
                           [obj |-> self, use_only_jit_ops |-> use_only_jit_ops])
           live  == { insts[i].obj._support_dict : i \in DOMAIN insts }
       IN  /\ instances' = insts
           /\ heap' = [id \in live |-> body.heap[id]]
    /\ UNCHANGED <<decomposition_table, prims, ret>>

\* instances[i].is_node_supported(submodules, node)
IsNodeSupported(i, node) ==
    /\ ret' = [self |-> i, node |-> node,
               result |-> is_node_supported(heap, instances[i].obj, node)]
    /\ UNCHANGED <<decomposition_table, prims, heap, instances>>

\* NvFuserOperatorSupport(use_only_jit_ops), for either value of the flag;
\* decomposition_table.items() and dir(torch.ops.prims) may list the
\* registries in any order.
NewWith(use_only_jit_ops) ==
    \E items \in Orders(DOMAIN decomposition_table) :
        \E names \in Orders(DOMAIN prims) :
            Construct(use_only_jit_ops, items, names)

NewLegacyOnly == NewWith(TRUE)

NewExtended == NewWith(FALSE)

New == NewLegacyOnly \/ NewExtended

Query ==
    \E i \in 1..Len(instances) : \E node \in Nodes : IsNodeSupported(i, node)

\* Construction alone, over every registry of the pools.
InitBuild == InitWith(DecompKeys, DecompImpls, DOMAIN PrimAttrs)

NextBuild == New

SpecBuild == InitBuild /\ [][NextBuild]_vars

\* Construction alone, over registries that hold overloads of a packet that is
\* a legacy key (aten.add) and of one that is not (aten.div).
OverloadKeys ==
    { OpOverload("aten", "add", "Tensor"), OpOverload("aten", "add", "Scalar"),
      OpOverload("aten", "div", "Tensor"), OpOverload("aten", "div", "Scalar"),
      OpOverloadPacket("aten", "amax") }

OverloadAttrs == { "add", "cat" }

InitOverload == InitWith(OverloadKeys, DecompImpls, OverloadAttrs)

SpecOverload == InitOverload /\ [][NextBuild]_vars

\* Construction and queries interleaved, over the registries of a small
\* example: one overload decomposed in torch._refs or a submodule of it, the
\* primitives cat and add, and a non-operation attribute.
ExampleKeys == { OpOverload("aten", "div", "Tensor") }

ExampleImpls ==
    { [__name__ |-> "div", __module__ |-> "torch._refs"],
      [__name__ |-> "celu", __module__ |-> "torch._refs.nn.functional"] }

ExampleAttrs == { "cat", "add", "__doc__" }

Init == InitWith(ExampleKeys, ExampleImpls, ExampleAttrs)

Next == New \/ Query

Spec == Init /\ [][Next]_vars

(***************************************************************************)
(* The properties.                                                          *)
(***************************************************************************)
\* The table of the i-th instance.
Table(i) == heap[instances[i].obj._support_dict]

Instances == 1..Len(instances)

Extended == { i \in Instances : ~instances[i].use_only_jit_ops }

LegacyOnly == { i \in Instances : instances[i].use_only_jit_ops }

\* The registry entries whose implementation is defined in torch._refs.
RefEntries ==
    { k \in DOMAIN decomposition_table :
          /\ "__module__" \in DOMAIN decomposition_table[k]
          /\ StrIn("torch._refs", decomposition_table[k].__module__) }

\* The attributes of torch.ops.prims that are operations.
PrimPackets == { op \in DOMAIN prims : prims[op] = "OpOverloadPacket" }

PacketName(k) == "torch.ops." \o k.ns \o "." \o k.name

OverloadName(k) == "torch.ops." \o k.ns \o "." \o k.name \o "." \o k.overload

PrimName(op) == "torch.ops.prims." \o op

\* The keys of the table of instance i, beyond the legacy ones, that start
\* with the name p.
AddedUnder(i, p) ==
    { x \in Table(i) \ jit_dict : Len(x) >= Len(p) /\ SubSeq(x, 1, Len(p)) = p }

\* op has "cat", "maximum" or "transpose" as a substring.
ContainsDenied(op) ==
    StrIn("cat", op) \/ StrIn("maximum", op) \/ StrIn("transpose", op)

\* C1: a node whose op is not call_function, call_method or call_module is
\* reported unsupported by every instance, also when its name is in the table.
C1_NonCallableUnsupported ==
    (ret.self # 0
        /\ ret.node.op \notin {"call_function", "call_method", "call_module"})
    => ret.result = FALSE

C1_Witness ==
    /\ ret.self # 0
    /\ ret.node.op \in {"placeholder", "root"}
    /\ ret.node.target \in Table(ret.self)

\* C2: a call_function, call_method or call_module node is reported supported
\* exactly when its qualified name is a key of the instance's table.
C2_CallableIffInTable ==
    (ret.self # 0
        /\ ret.node.op \in {"call_function", "call_method", "call_module"})
    => (ret.result <=> ret.node.target \in Table(ret.self))

C2_Witness ==
    /\ ret.self # 0
    /\ ret.node.op = "call_method"
    /\ ret.node.target = "torch.ops.prims.add"
    /\ ret.result = TRUE

\* C3: an instance constructed with use_only_jit_ops=True has exactly the legacy
\* table, whatever the registries hold.
C3_LegacyOnlyIsSeed ==
    \A i \in LegacyOnly : Table(i) = jit_dict

C3_Witness ==
    /\ LegacyOnly # {}
    /\ RefEntries # {}
    /\ "add" \in PrimPackets
    /\ \A i \in LegacyOnly :
           PrimName("add") \notin Table(i)
           /\ \A k \in RefEntries : PacketName(k) \notin Table(i)

\* C4: every key of the legacy table is in the table of every instance, in
\* either mode, and a call_function node of that name is reported supported.
C4_LegacyKept ==
    \A i \in Instances : \A op \in jit_dict :
        /\ op \in Table(i)
        /\ is_node_supported(heap, instances[i].obj,
                             [op |-> "call_function", target |-> op])

C4_Witness ==
    /\ Extended # {}
    /\ "cat" \in PrimPackets
    /\ RefEntries # {}
    /\ \A i \in Extended : Table(i) # jit_dict /\ jit_dict \subseteq Table(i)

\* C5: in the extended mode no primitive whose name has "cat", "maximum" or
\* "transpose" as a substring has its qualified name in the table.
C5_DeniedAbsent ==
    \A i \in Extended : \A op \in PrimPackets :
        ContainsDenied(op) => PrimName(op) \notin Table(i)

\* Two distinct registry keys that are overloads of one packet.
SamePacket(k1, k2) ==
    /\ k1 # k2
    /\ k1.type = "OpOverload" /\ k2.type = "OpOverload"
    /\ k1.ns = k2.ns /\ k1.name = k2.name

\* C6 as stated: canonical entries for two overloads of one packet are stored
\* under the one key of the packet, so that the two add exactly one entry to
\* the table; a canonical packet key is stored under its own name.
C6_OverloadsAddOneEntry ==
    \A i \in Extended : \A k1 \in RefEntries :
        /\ PacketName(k1) \in Table(i)
        /\ \A k2 \in RefEntries :
               SamePacket(k1, k2)
               => AddedUnder(i, PacketName(k1)) = {PacketName(k1)}

\* C6 as amended: canonical entries for two overloads of one packet are stored
\* under the one key of the packet and under no overload-specific key; the
\* two add one entry when that key is not a legacy key and none when it is.
\* A canonical packet key is stored under its own name.
C6_OverloadsShareKey ==
    \A i \in Extended : \A k1 \in RefEntries :
        /\ PacketName(k1) \in Table(i)
        /\ \A k2 \in RefEntries :
               SamePacket(k1, k2)
               => /\ Table(i) \cap {OverloadName(k1), OverloadName(k2)}
                         \subseteq jit_dict
                  /\ AddedUnder(i, PacketName(k1))
                         = {PacketName(k1)} \ jit_dict
                  /\ Cardinality(AddedUnder(i, PacketName(k1)))
                         = IF PacketName(k1) \in jit_dict THEN 0 ELSE 1

C6_Witness ==
    /\ Extended # {}
    /\ \E k1, k2 \in RefEntries :
           /\ SamePacket(k1, k2)
           /\ PacketName(k1) \in jit_dict
           /\ \A i \in Extended :
                  PacketName(k1) \in Table(i) /\ AddedUnder(i, PacketName(k1)) = {}

\* C7: in the extended mode the table is exactly the legacy table, the packet
\* names of the canonical registry entries, and the qualified names of the
\* primitive packets whose name has no denylist entry as a substring.
C7_TableIsUnion ==
    \A i \in Extended :
        Table(i) = jit_dict
                     \cup { PacketName(k) : k \in RefEntries }
                     \cup { PrimName(op) :
                                op \in { p \in PrimPackets : ~ContainsDenied(p) } }

\* C8: instances constructed with the same flag have equal tables, whatever
\* the order the registries were enumerated in.
C8_SameFlagSameTable ==
    \A i, j \in Instances :
        instances[i].use_only_jit_ops = instances[j].use_only_jit_ops
        => Table(i) = Table(j)

C8_Witness ==
    /\ Cardinality(Extended) >= 2
    /\ Cardinality(PrimPackets) >= 2
    /\ "cat" \in PrimPackets
    /\ Cardinality(RefEntries) >= 2

\* C9: a step changes no existing instance, no existing instance's table and
\* neither registry; a new instance's dict is an object no earlier instance
\* or dict used, so no two instances share a table.
C9_TablesFrozen ==
    [][ /\ \A i \in Instances :
              /\ instances'[i] = instances[i]
              /\ heap'[instances[i].obj._support_dict] = Table(i)
        /\ decomposition_table' = decomposition_table
        /\ prims' = prims
        /\ Len(instances') > Len(instances)
              => instances'[Len(instances')].obj._support_dict \notin DOMAIN heap
        /\ \A i, j \in 1..Len(instances') :
              i # j => instances'[i].obj._support_dict
                         # instances'[j].obj._support_dict ]_vars

C9_Witness ==
    /\ Len(instances) = 2
    /\ instances[1].use_only_jit_ops
    /\ ~instances[2].use_only_jit_ops
    /\ Table(1) = jit_dict
    /\ Table(2) # jit_dict
    /\ ret.self = 1
    /\ ret.node.op = "call_function"

\* The registry entries whose implementation has no __module__ attribute.
NoModuleEntries ==
    { k \in DOMAIN decomposition_table :
          "__module__" \notin DOMAIN decomposition_table[k] }

\* C10: with an entry whose implementation has no __module__, the extended
\* construction goes through, the entry adds no key, and the canonical
\* entries and the primitives are processed as without it.
C10_NoModuleExcluded ==
    /\ (NoModuleEntries # {} /\ Len(instances) < MaxInstances) => ENABLED NewExtended
    /\ \A i \in Extended : \A k \in NoModuleEntries :
           /\ (PacketName(k) \in Table(i)
                  => \E k2 \in RefEntries : PacketName(k2) = PacketName(k))
           /\ OverloadName(k) \notin Table(i)
           /\ \A k2 \in RefEntries : PacketName(k2) \in Table(i)
           /\ "add" \in PrimPackets => PrimName("add") \in Table(i)
           /\ "cat" \in PrimPackets => PrimName("cat") \notin Table(i)

C10_Witness ==
    /\ Extended # {}
    /\ NoModuleEntries # {}
    /\ RefEntries # {}
    /\ "add" \in PrimPackets
    /\ \A i \in Extended : PrimName("add") \in Table(i)

====
